---- MODULE Spec2Model ----
(***************************************************************************)
(* Model of mu-exam-bot (src/main.py): the Resource Store (sqlite table    *)
(* `resources`), the File Blob Store (directory `uploads`), the AI Query   *)
(* Adapter and the chat handlers that compose them.                        *)
(*                                                                         *)
(* Text values are sequences of one-character strings, so that strip(),    *)
(* split(), LIKE matching and substring tests are computed, not assumed.   *)
(* A chat message is a tuple whose head is the fixed template text and     *)
(* whose tail holds the formatted-in arguments.                            *)
(***************************************************************************)
EXTENDS Integers, Sequences, FiniteSets, TLC

VARIABLES
    rows,     \* table `resources`, in rowid order: sequence of row records
    seq,      \* sqlite_sequence value for `resources` (largest id ever given)
    blobs,    \* directory uploads/: function from file name to content
    clock,    \* wall clock, in ticks of 1/TicksPerSecond second
    addLog,   \* history: the add_resource calls that returned, with their ids
    out       \* the event handled last: its inputs, locals and effects

vars == <<rows, seq, blobs, clock, addLog, out>>

----------------------------------------------------------------------------
(* Bounds of the model. *)

MaxRows == 2          \* uploads are enabled while Len(rows) < MaxRows
MaxClock == 2         \* the clock stops advancing at MaxClock ticks
TicksPerSecond == 2   \* clock ticks (distinct utcnow() readings) per second
MaxCaptionLen == 3    \* captions of SpecParse have at most this many characters

----------------------------------------------------------------------------
(* Python values. *)

\* None, kept apart from every text value ("" is <<>>).
NoneV == <<"<None>">>

\* doc.file_size when Telegram sent none (the field is optional).
NoSize == -1

\* Python truthiness of an optional text: None and "" are falsy.
Truthy(x) == x # NoneV /\ x # <<>>

\* Python `a or b` on optional texts.
Or(a, b) == IF Truthy(a) THEN a ELSE b

IsWhite(c) == c = " "

\* str.strip()
RECURSIVE LStrip(_)
LStrip(s) == IF s # <<>> /\ IsWhite(Head(s)) THEN LStrip(Tail(s)) ELSE s

RECURSIVE RStrip(_)
RStrip(s) ==
    IF s # <<>> /\ IsWhite(s[Len(s)]) THEN RStrip(SubSeq(s, 1, Len(s) - 1)) ELSE s

Strip(s) == RStrip(LStrip(s))

\* Index of the first occurrence of character c in s, 0 when there is none.
Find(s, c) ==
    IF \E i \in 1..Len(s) : s[i] = c
    THEN CHOOSE i \in 1..Len(s) : s[i] = c /\ \A j \in 1..(i - 1) : s[j] # c
    ELSE 0

\* str.split(sep, maxsplit): at most maxsplit cuts, the rest stays whole.
RECURSIVE Split(_, _, _)
Split(s, sep, maxsplit) ==
    IF maxsplit = 0 \/ Find(s, sep) = 0
    THEN <<s>>
    ELSE <<SubSeq(s, 1, Find(s, sep) - 1)>>
         \o Split(SubSeq(s, Find(s, sep) + 1, Len(s)), sep, maxsplit - 1)

\* str(n) for the small non-negative integers of the model.
Str(n) == <<CASE n = 0 -> "0" [] n = 1 -> "1" [] n = 2 -> "2" [] n = 3 -> "3"
              [] n = 4 -> "4" [] n = 5 -> "5" [] n = 6 -> "6" [] n = 7 -> "7"
              [] n = 8 -> "8" [] OTHER -> "9">>

\* int(s) for a one-character text; -1 stands for the ValueError.
IntOf(s) ==
    IF \E n \in 0..9 : Str(n) = s THEN CHOOSE n \in 0..9 : Str(n) = s ELSE -1

\* pathlib.Path(s).name: trailing slashes dropped, then the last component.
RECURSIVE DropTrailingSlash(_)
DropTrailingSlash(s) ==
    IF s # <<>> /\ s[Len(s)] = "/"
    THEN DropTrailingSlash(SubSeq(s, 1, Len(s) - 1)) ELSE s

RECURSIVE LastComponent(_)
LastComponent(s) ==
    IF Find(s, "/") = 0 THEN s
    ELSE LastComponent(SubSeq(s, Find(s, "/") + 1, Len(s)))

PathName(s) == LastComponent(DropTrailingSlash(s))

----------------------------------------------------------------------------
(* Clock readings. *)

\* int(time.time())
TimeSeconds(t) == t \div TicksPerSecond

\* datetime.utcnow().isoformat(): seconds, then the fraction unless it is 0.
IsoFormat(t) ==
    IF t % TicksPerSecond = 0
    THEN <<t \div TicksPerSecond>>
    ELSE <<t \div TicksPerSecond, t % TicksPerSecond>>

\* sqlite's BINARY collation on TEXT: memcmp, a proper prefix sorts first.
RECURSIVE TextLess(_, _)
TextLess(a, b) ==
    IF b = <<>> THEN FALSE
    ELSE IF a = <<>> THEN TRUE
    ELSE IF Head(a) # Head(b) THEN Head(a) < Head(b)
    ELSE TextLess(Tail(a), Tail(b))

----------------------------------------------------------------------------
(* Resource Store: table `resources`. *)

\* One row of CREATE TABLE resources.
Row(id, title, filename, course_code, department, uploader, uploaded_at) ==
    [id |-> id, title |-> title, filename |-> filename,
     course_code |-> course_code, department |-> department,
     uploader |-> uploader, uploaded_at |-> uploaded_at]

\* The column list `id, title, filename, course_code, department` of both SELECTs.
Summary(r) == <<r.id, r.title, r.filename, r.course_code, r.department>>

\* Mutant of add_resource: title and course_code are bound to each other's
\* column in the VALUES tuple.
add_resource_swapped(table, last, title, filename, course_code, department, uploader, t) ==
    [rows |-> Append(table, Row(last + 1, course_code, filename, title,
                                department, uploader, IsoFormat(t))),
     seq |-> last + 1,
     id |-> last + 1]

\* Mutant of add_resource: INSERT OR REPLACE on a table whose id does not
\* auto-increment, so the new row takes the place of the rows before it.
add_resource_replacing(table, last, title, filename, course_code, department, uploader, t) ==
    [rows |-> <<Row(last + 1, title, filename, course_code,
                    department, uploader, IsoFormat(t))>>,
     seq |-> last + 1,
     id |-> last + 1]

\* add_resource: INSERT with uploaded_at = utcnow().isoformat(); the id is
\* AUTOINCREMENT, one more than the largest id the table ever gave.
add_resource(table, last, title, filename, course_code, department, uploader, t) ==
    [rows |-> Append(table, Row(last + 1, title, filename, course_code,
                                department, uploader, IsoFormat(t))),
     seq |-> last + 1,
     id |-> last + 1]

\* Mutant of get_resource: the lookup ignores the id and takes the first row.
get_resource_first(table, res_id) ==
    IF table # <<>> THEN Summary(table[1]) ELSE NoneV

\* get_resource: SELECT ... WHERE id = ?; fetchone() gives the row or None.
get_resource(table, res_id) ==
    IF \E i \in 1..Len(table) : table[i].id = res_id
    THEN Summary(table[CHOOSE i \in 1..Len(table) : table[i].id = res_id])
    ELSE NoneV

\* sqlite folds ASCII case in LIKE.
Lower(c) == CASE c = "A" -> "a" [] c = "B" -> "b" [] OTHER -> c

\* sqlite's `s LIKE p`: % is any run of characters, _ is any one character,
\* any other character matches itself without regard to ASCII case.
RECURSIVE Like(_, _)
Like(s, p) ==
    IF p = <<>> THEN s = <<>>
    ELSE IF Head(p) = "%"
         THEN Like(s, Tail(p)) \/ (s # <<>> /\ Like(Tail(s), p))
    ELSE IF s = <<>> THEN FALSE
    ELSE IF Head(p) = "_" THEN Like(Tail(s), Tail(p))
    ELSE Lower(Head(p)) = Lower(Head(s)) /\ Like(Tail(s), Tail(p))

\* The WHERE clause of search_resources, with like = f"%{q}%".
RowMatches(r, q) ==
    LET like == <<"%">> \o q \o <<"%">>
    IN  Like(r.title, like) \/ Like(r.course_code, like) \/ Like(r.department, like)

\* The orders ORDER BY uploaded_at DESC allows for the row indices in S:
\* rows with equal uploaded_at may come out either way round.
Orderings(table, S) ==
    {f \in [1..Cardinality(S) -> S] :
        /\ \A i, j \in 1..Cardinality(S) : i # j => f[i] # f[j]
        /\ \A i, j \in 1..Cardinality(S) :
              i < j => ~TextLess(table[f[i]].uploaded_at, table[f[j]].uploaded_at)}

Min(a, b) == IF a < b THEN a ELSE b

\* search_resources: the results fetchall() may give (one per allowed order),
\* each cut by LIMIT.
search_resources(table, q, limit) ==
    LET S == {i \in 1..Len(table) : RowMatches(table[i], q)}
    IN  {[k \in 1..Min(limit, Cardinality(S)) |-> Summary(table[f[k]])] :
            f \in Orderings(table, S)}

----------------------------------------------------------------------------
(* Inputs of the chat events. *)

\* message.from_user.id values; ADMIN_IDS is the parsed allowlist.
Users == {1, 2}
ADMIN_IDS == {1}

\* message.caption: absent, or a text.
Captions == {NoneV, <<"a">>, <<" ", "A", "|", "b">>}

\* message.document.file_name: absent (the field is optional), or a text.
FileNames == {NoneV, <<"a">>, <<"d", "/", "a">>}

\* The upload limit of handle_document, in bytes.
MaxUploadSize == 20 * 1024 * 1024

\* message.document.file_size: absent, within the limit, above it.
FileSizes == {NoSize, 1, MaxUploadSize + 1}

\* The bytes Telegram serves for the document.
Contents == {"bytes"}

\* What is left of a file whose write failed after open(..., "wb") made it.
Partial == "partial"

\* Search queries typed by users, wildcards of LIKE among them.
Queries == {<<>>, <<"a">>, <<"b">>, <<"_">>}

\* LIMIT values: the handlers pass 20 and 10, the store takes any.
Limits == {1, 2}

\* The id part of callback data "get:<id>".
CallbackIds == {Str(1), Str(2), Str(3), <<"x">>}

----------------------------------------------------------------------------
(* The record of one handled event. *)

NoEvent ==
    [event |-> "none",
     user |-> 0,          \* message.from_user.id of a document
     file_size |-> NoSize,   \* message.document.file_size of a document
     input |-> [kind |-> "none"],   \* arguments of a direct function call
     query |-> <<>>, limit |-> 0, data |-> <<>>,
     met |-> {},          \* external failures the handling met
     calls |-> <<>>,      \* requests made to the chat platform and the AI service
     replies |-> <<>>,    \* messages sent to the sender, in order
     fault |-> "",        \* the exception that left the handler, "" when none
     wrote |-> NoneV,     \* name under uploads/ opened for writing
     existed |-> FALSE,   \* whether that name was there before the open
     added |-> 0,         \* id add_resource returned, 0 when it was not reached
     result |-> <<>>,     \* rows a search gave
     title |-> NoneV, course_code |-> NoneV, department |-> NoneV,
     text |-> NoneV,      \* string an adapter call returned
     raised |-> FALSE]    \* whether an adapter call raised

\* Message templates.
PermissionDenied == "Only admins may upload files. Ask an admin to upload."
TooLarge == "File is too large. The limit is 20MB."
FileInfoError == "Error getting file info from Telegram. Is the file valid?"
DownloadError == "Failed to download document from Telegram: "
Uploaded == "Uploaded: "
SaveError == "Error saving file to server: "
MetadataError == "Error saving file metadata: "

----------------------------------------------------------------------------
(* handle_document *)

\* Mutant of parse_caption: every '|' cuts, and the third piece is the department.
parse_caption_allsplit(caption0, file_name, t) ==
    LET caption == Strip(Or(caption0, <<>>))
        parts == Split(caption, "|", Len(caption))
    IN  IF Find(caption, "|") # 0
        THEN [title |-> Strip(parts[1]),
              course_code |-> IF Len(parts) > 1 THEN Strip(parts[2]) ELSE <<>>,
              department |-> IF Len(parts) > 2 THEN Strip(parts[3]) ELSE <<>>]
        ELSE [title |-> Or(caption, Or(file_name, <<"resource_">> \o Str(TimeSeconds(t)))),
              course_code |-> <<>>,
              department |-> <<>>]

\* The caption convention Title|COURSE_CODE|DEPARTMENT of handle_document.
parse_caption(caption0, file_name, t) ==
    LET caption == Strip(Or(caption0, <<>>))
        parts == Split(caption, "|", 2)
    IN  IF Find(caption, "|") # 0
        THEN [title |-> Strip(parts[1]),
              course_code |-> IF Len(parts) > 1 THEN Strip(parts[2]) ELSE <<>>,
              department |-> IF Len(parts) > 2 THEN Strip(parts[3]) ELSE <<>>]
        ELSE [title |-> Or(caption, Or(file_name, <<"resource_">> \o Str(TimeSeconds(t)))),
              course_code |-> <<>>,
              department |-> <<>>]

\* safe_name = f"{int(time.time())}_{Path(doc.file_name).name}"
safe_name(file_name, t) == Str(TimeSeconds(t)) \o <<"_">> \o PathName(file_name)

\* Mutant of IsAdmin: the allowlist test is dropped.
IsAdmin_everyone(user) == TRUE

\* user_id in ADMIN_IDS
IsAdmin(user) == user \in ADMIN_IDS

\* Mutant of IsOversized: the limit is written as 200 MB.
IsOversized_200MB(file_size) == file_size > 200 * 1024 * 1024

\* doc.file_size > 20 * 1024 * 1024
IsOversized(file_size) == file_size > MaxUploadSize

\* The directory after open(out_path, "wb") and fh.write(content).
WriteBlob(dir, name, content) ==
    [f \in DOMAIN dir \cup {name} |-> IF f = name THEN content ELSE dir[f]]

\* The external call that fails while an event is handled, "none" for no failure:
\* bot.get_file, requests.get, open(out_path, "wb"), fh.write, the INSERT,
\* bot.send_document, Image.open, generate_content.
DocumentFailures == {"none", "get_file", "download", "open", "write", "insert"}
PhotoFailures == {"none", "get_file", "download", "decode", "remote"}

\* An inbound document; fail names the external call that fails.
handle_document(user, caption, file_name, file_size, content, fail) ==
    LET ev == [NoEvent EXCEPT !.event = "document", !.user = user,
                              !.file_size = file_size]
        p == parse_caption(caption, file_name, clock)
        parsed == [ev EXCEPT !.title = p.title, !.course_code = p.course_code,
                             !.department = p.department,
                             !.calls = <<"get_file", "download">>]
        name == safe_name(file_name, clock)
        opened == [parsed EXCEPT !.wrote = name, !.existed = name \in DOMAIN blobs]
        ins == add_resource(rows, seq, p.title, name, p.course_code, p.department,
                            Str(user), clock)
    IN
    /\ IF ~IsAdmin(user)
       THEN /\ out' = [ev EXCEPT !.replies = <<<<PermissionDenied>>>>]
            /\ UNCHANGED <<rows, seq, blobs, clock, addLog>>
       ELSE IF file_size = NoSize
       THEN \* None > int raises TypeError, outside every try
            /\ out' = [ev EXCEPT !.met = {"no_file_size"}, !.fault = "TypeError"]
            /\ UNCHANGED <<rows, seq, blobs, clock, addLog>>
       ELSE IF IsOversized(file_size)
       THEN /\ out' = [ev EXCEPT !.replies = <<<<TooLarge>>>>]
            /\ UNCHANGED <<rows, seq, blobs, clock, addLog>>
       ELSE IF fail = "get_file"
       THEN /\ out' = [ev EXCEPT !.met = {"get_file"}, !.calls = <<"get_file">>,
                                 !.replies = <<<<FileInfoError>>>>]
            /\ UNCHANGED <<rows, seq, blobs, clock, addLog>>
       ELSE IF fail = "download"
       THEN /\ out' = [ev EXCEPT !.met = {"download"},
                                 !.calls = <<"get_file", "download">>,
                                 !.replies = <<<<DownloadError, "e">>>>]
            /\ UNCHANGED <<rows, seq, blobs, clock, addLog>>
       ELSE IF file_name = NoneV
       THEN \* Path(None) raises TypeError, before the try of the save
            /\ out' = [parsed EXCEPT !.met = {"no_file_name"}, !.fault = "TypeError"]
            /\ UNCHANGED <<rows, seq, blobs, clock, addLog>>
       ELSE IF fail = "open"
       THEN /\ out' = [opened EXCEPT !.met = {"write"},
                                     !.replies = <<<<SaveError, "e">>>>]
            /\ UNCHANGED <<rows, seq, blobs, clock, addLog>>
       ELSE IF fail = "write"
       THEN /\ out' = [opened EXCEPT !.met = {"write"},
                                     !.replies = <<<<SaveError, "e">>>>]
            /\ blobs' = WriteBlob(blobs, name, Partial)
            /\ UNCHANGED <<rows, seq, clock, addLog>>
       ELSE IF fail = "insert"
       THEN /\ out' = [opened EXCEPT !.met = {"insert"},
                                     !.replies = <<<<MetadataError, "e">>>>]
            /\ blobs' = WriteBlob(blobs, name, content)
            /\ UNCHANGED <<rows, seq, clock, addLog>>
       ELSE /\ Len(rows) < MaxRows
            /\ out' = [opened EXCEPT !.added = ins.id,
                          !.replies = <<<<Uploaded, p.title,
                                          Or(p.course_code, <<"N", "/", "A">>)>>>>]
            /\ blobs' = WriteBlob(blobs, name, content)
            /\ rows' = ins.rows
            /\ seq' = ins.seq
            /\ UNCHANGED clock
            /\ addLog' = Append(addLog,
                   [id |-> ins.id, title |-> p.title, filename |-> name,
                    course_code |-> p.course_code, department |-> p.department,
                    uploader |-> Str(user)])

----------------------------------------------------------------------------
(* AI Query Adapter *)

\* Shapes of a generate_content response.  text_raises: response.text raises
\* ValueError.  feedback: "missing" (prompt_feedback absent: AttributeError),
\* "" (no block reason) or the block reason's name.  A candidate has a finish
\* reason name ("missing": finish_reason is None), content (content_ok FALSE:
\* content is None) and parts, each with or without a text attribute.
PartShapes ==
    {[has_text |-> h, text |-> t] : h \in BOOLEAN, t \in {<<>>, <<"part">>}}

PartLists == {<<>>} \cup {<<a>> : a \in PartShapes}
             \cup {<<a, b>> : a \in PartShapes, b \in {[has_text |-> TRUE, text |-> <<"more">>]}}

CandidateShapes ==
    {[finish |-> f, content_ok |-> c, parts |-> ps] :
        f \in {"STOP", "MAX_TOKENS", "missing"}, c \in BOOLEAN, ps \in PartLists}

ResponseShapes ==
    {[text_raises |-> r, text |-> t, feedback |-> b, candidates |-> cs] :
        r \in BOOLEAN, t \in {<<>>, <<"answer">>},
        b \in {"missing", "", "SAFETY"},
        cs \in {<<>>} \cup {<<c>> : c \in CandidateShapes}}

\* The few shapes the chat handlers of Spec are driven with.
SomeResponses ==
    {rsp \in ResponseShapes :
        /\ rsp.candidates = <<>>
        /\ rsp.feedback \in {"", "SAFETY"}
        /\ rsp.text_raises = (rsp.text = <<>>)}

\* The fallback string (the source spells the dash as U+2014).
Unreadable == <<"Sorry - Gemini returned an unreadable answer.">>

\* "".join(texts)
RECURSIVE Join(_)
Join(texts) == IF texts = <<>> THEN <<>> ELSE Head(texts) \o Join(Tail(texts))

\* [part.text for part in parts if hasattr(part, "text")]
RECURSIVE TextParts(_)
TextParts(parts) ==
    IF parts = <<>> THEN <<>>
    ELSE (IF Head(parts).has_text THEN <<Head(parts).text>> ELSE <<>>)
         \o TextParts(Tail(parts))

\* The third try block of _get_text_from_gemini_response; NoneV: fell through.
FromCandidates(rsp) ==
    IF rsp.candidates = <<>> THEN NoneV
    ELSE LET c == rsp.candidates[1]
         IN  IF c.finish = "missing" THEN NoneV          \* AttributeError on .name
             ELSE IF c.finish # "STOP" THEN <<"Generation stopped: ", c.finish>>
             ELSE IF ~c.content_ok THEN NoneV            \* AttributeError on .parts
             ELSE IF TextParts(c.parts) # <<>> THEN Join(TextParts(c.parts))
             ELSE NoneV

\* Mutant of _get_text_from_gemini_response: the candidates are looked at
\* before the prompt feedback.
get_text_candidates_before_feedback(rsp) ==
    IF ~rsp.text_raises /\ rsp.text # <<>> THEN rsp.text
    ELSE IF FromCandidates(rsp) # NoneV THEN FromCandidates(rsp)
    ELSE IF rsp.feedback \notin {"missing", ""}
         THEN <<"Request blocked by Gemini: ", rsp.feedback>>
    ELSE Unreadable

\* _get_text_from_gemini_response
get_text_from_gemini_response(rsp) ==
    IF ~rsp.text_raises /\ rsp.text # <<>> THEN rsp.text
    ELSE IF rsp.feedback \notin {"missing", ""}
         THEN <<"Request blocked by Gemini: ", rsp.feedback>>
    ELSE IF FromCandidates(rsp) # NoneV THEN FromCandidates(rsp)
    ELSE Unreadable

TextErrorPrefix == "Error querying Gemini: "
ImageErrorPrefix == "Error processing image: "

\* gemini_text_query: one generate_content call inside try/except Exception.
gemini_text_query(remote_ok, rsp) ==
    IF remote_ok
    THEN [text |-> get_text_from_gemini_response(rsp), calls |-> <<"generate_content">>,
          raised |-> FALSE]
    ELSE [text |-> <<TextErrorPrefix, "e">>, calls |-> <<"generate_content">>,
          raised |-> FALSE]

\* Mutant of gemini_image_query: the decoding is left outside the try.
gemini_image_query_unguarded(decode_ok, remote_ok, rsp) ==
    IF ~decode_ok
    THEN [text |-> NoneV, calls |-> <<>>, raised |-> TRUE]
    ELSE IF ~remote_ok
    THEN [text |-> <<ImageErrorPrefix, "e">>, calls |-> <<"generate_content">>,
          raised |-> FALSE]
    ELSE [text |-> get_text_from_gemini_response(rsp), calls |-> <<"generate_content">>,
          raised |-> FALSE]

\* gemini_image_query: Image.open(...).convert("RGB"), then one
\* generate_content call, both inside try/except Exception.
gemini_image_query(decode_ok, remote_ok, rsp) ==
    IF ~decode_ok
    THEN [text |-> <<ImageErrorPrefix, "e">>, calls |-> <<>>, raised |-> FALSE]
    ELSE IF ~remote_ok
    THEN [text |-> <<ImageErrorPrefix, "e">>, calls |-> <<"generate_content">>,
          raised |-> FALSE]
    ELSE [text |-> get_text_from_gemini_response(rsp), calls |-> <<"generate_content">>,
          raised |-> FALSE]

----------------------------------------------------------------------------
(* The other handlers. *)

START_TEXT == "*Welcome to Mekelle University Exam Share Bot*"

\* /start, /help
send_welcome ==
    /\ out' = [NoEvent EXCEPT !.event = "start",
                              !.replies = <<<<START_TEXT>>>>]
    /\ UNCHANGED <<rows, seq, blobs, clock, addLog>>

\* /list
cmd_list ==
    /\ \E res \in search_resources(rows, <<>>, 20) :
          out' = [NoEvent EXCEPT
                    !.event = "list", !.limit = 20, !.result = res,
                    !.replies = IF res = <<>>
                                THEN <<<<"No resources uploaded yet.">>>>
                                ELSE <<<<"Recent resources:", res>>>>]
    /\ UNCHANGED <<rows, seq, blobs, clock, addLog>>

\* /search <args>; q is the stripped text after the command.
cmd_search(q) ==
    /\ IF q = <<>>
       THEN out' = [NoEvent EXCEPT
                      !.event = "search",
                      !.replies = <<<<"Usage: /search <course name or code or department>">>>>]
       ELSE \E res \in search_resources(rows, q, 20) :
               out' = [NoEvent EXCEPT
                         !.event = "search", !.query = q,
                         !.limit = 20, !.result = res,
                         !.replies = IF res = <<>>
                                     THEN <<<<"No matches found.">>>>
                                     ELSE [k \in 1..Len(res) |-> <<"Download", res[k]>>]]
    /\ UNCHANGED <<rows, seq, blobs, clock, addLog>>

\* A direct call of the store's search, with any limit.
search_call(q, limit) ==
    /\ \E res \in search_resources(rows, q, limit) :
          out' = [NoEvent EXCEPT !.event = "store_search", !.query = q,
                                 !.limit = limit, !.result = res]
    /\ UNCHANGED <<rows, seq, blobs, clock, addLog>>

\* The "Download" button: callback data "get:<id_str>"; send tells whether
\* send_document succeeds.  The replies are the answer_callback_query texts.
handle_get_callback(id_str, send) ==
    LET ev == [NoEvent EXCEPT !.event = "get", !.data = id_str]
        rid == IntOf(id_str)
        row == get_resource(rows, rid)
    IN
    /\ IF rid = -1
       THEN out' = [ev EXCEPT !.replies = <<<<"Invalid id.">>>>]
       ELSE IF row = NoneV
       THEN out' = [ev EXCEPT !.replies = <<<<"Resource not found.">>>>]
       ELSE IF row[3] \notin DOMAIN blobs
       THEN out' = [ev EXCEPT !.replies = <<<<"File missing on server.">>>>]
       ELSE IF send
       THEN out' = [ev EXCEPT !.calls = <<"send_document">>,
                              !.replies = <<<<"Sent!">>>>]
       ELSE out' = [ev EXCEPT !.met = {"send"}, !.calls = <<"send_document">>,
                              !.replies = <<<<"Error sending file.">>>>]
    /\ UNCHANGED <<rows, seq, blobs, clock, addLog>>

\* An inbound photo.
handle_photo(fail, rsp) ==
    LET ev == [NoEvent EXCEPT !.event = "photo"]
        getFile == fail # "get_file"
        download == fail # "download"
        decode_ok == fail # "decode"
        remote_ok == fail # "remote"
        processing == <<"Processing image... (may take a few seconds)">>
        ai == gemini_image_query(decode_ok, remote_ok, rsp)
    IN
    /\ IF ~getFile
       THEN out' = [ev EXCEPT !.met = {"get_file"}, !.calls = <<"get_file">>,
                      !.replies = <<processing,
                          <<"An error occurred while processing the image: ", "e">>>>]
       ELSE IF ~download
       THEN out' = [ev EXCEPT !.met = {"download"},
                      !.calls = <<"get_file", "download">>,
                      !.replies = <<processing, <<"Failed to download image: ", "e">>>>]
       ELSE IF ai.raised
       THEN out' = [ev EXCEPT !.met = {"decode"},
                      !.calls = <<"get_file", "download">> \o ai.calls,
                      !.replies = <<processing,
                          <<"An error occurred while processing the image: ", "e">>>>]
       ELSE out' = [ev EXCEPT
                      !.met = (IF ~decode_ok THEN {"decode"} ELSE {})
                              \cup (IF decode_ok /\ ~remote_ok THEN {"remote"} ELSE {}),
                      !.calls = <<"get_file", "download">> \o ai.calls,
                      !.replies = <<processing, ai.text>>]
    /\ UNCHANGED <<rows, seq, blobs, clock, addLog>>

\* Free text "search:<q>"; q is the stripped text after the colon.
handle_text_search(q) ==
    /\ IF q = <<>>
       THEN out' = [NoEvent EXCEPT !.event = "text_search",
                                   !.replies = <<<<"Usage: search: <query>">>>>]
       ELSE \E res \in search_resources(rows, q, 10) :
               out' = [NoEvent EXCEPT
                         !.event = "text_search", !.query = q,
                         !.limit = 10, !.result = res,
                         !.replies = IF res = <<>>
                                     THEN <<<<"No resources found.">>>>
                                     ELSE <<<<"listing", res>>>>]
    /\ UNCHANGED <<rows, seq, blobs, clock, addLog>>

\* Any other free text: forwarded to gemini_text_query.
handle_text_ai(remote_ok, rsp) ==
    LET ai == gemini_text_query(remote_ok, rsp)
    IN
    /\ out' = [NoEvent EXCEPT
                 !.event = "text",
                 !.met = IF remote_ok THEN {} ELSE {"remote"},
                 !.calls = <<"send_chat_action">> \o ai.calls,
                 !.fault = IF ai.raised THEN "Exception" ELSE "",
                 !.replies = IF ai.raised THEN <<>> ELSE <<ai.text>>]
    /\ UNCHANGED <<rows, seq, blobs, clock, addLog>>

----------------------------------------------------------------------------
(* The environment. *)

\* Time passes between events.
Tick ==
    /\ clock < MaxClock
    /\ clock' = clock + 1
    /\ UNCHANGED <<rows, seq, blobs, addLog, out>>

\* A file of uploads/ is removed by something other than the bot.
DeleteBlobOutOfBand ==
    /\ \E name \in DOMAIN blobs :
          blobs' = [f \in DOMAIN blobs \ {name} |-> blobs[f]]
    /\ UNCHANGED <<rows, seq, clock, addLog, out>>

----------------------------------------------------------------------------
(* The bot: events are handled one at a time, each to completion. *)

\* No event is being handled.
Idle == out = NoEvent

\* telegram_webhook returns: the handled event is over.
telegram_webhook_return ==
    /\ ~Idle
    /\ out' = NoEvent
    /\ UNCHANGED <<rows, seq, blobs, clock, addLog>>

Init ==
    /\ rows = <<>>
    /\ seq = 0
    /\ blobs = <<>>
    /\ clock = 0
    /\ addLog = <<>>
    /\ out = NoEvent

Next ==
    \/ Idle /\ send_welcome
    \/ Idle /\ cmd_list
    \/ Idle /\ \E q \in Queries : cmd_search(q)
    \/ Idle /\ \E q \in Queries, l \in Limits : search_call(q, l)
    \/ Idle /\ \E id \in CallbackIds, s \in BOOLEAN : handle_get_callback(id, s)
    \/ Idle /\ \E u \in Users, c \in Captions, n \in FileNames, z \in FileSizes,
                  b \in Contents, f \in DocumentFailures :
                    handle_document(u, c, n, z, b, f)
    \/ Idle /\ \E f \in PhotoFailures, rsp \in SomeResponses : handle_photo(f, rsp)
    \/ Idle /\ \E q \in Queries : handle_text_search(q)
    \/ Idle /\ \E r \in BOOLEAN, rsp \in SomeResponses : handle_text_ai(r, rsp)
    \/ Idle /\ Tick
    \/ Idle /\ DeleteBlobOutOfBand
    \/ telegram_webhook_return

Spec == Init /\ [][Next]_vars

----------------------------------------------------------------------------
(* The caption convention on its own: every caption up to MaxCaptionLen. *)

CaptionChars == {"a", "b", "|", " "}

RECURSIVE TextsUpTo(_, _)
TextsUpTo(chars, n) ==
    IF n = 0 THEN {<<>>}
    ELSE TextsUpTo(chars, n - 1)
         \cup {Append(t, c) : t \in TextsUpTo(chars, n - 1), c \in chars}

AllCaptions == {NoneV} \cup TextsUpTo(CaptionChars, MaxCaptionLen)

InitParse ==
    /\ rows = <<>> /\ seq = 0 /\ blobs = <<>> /\ addLog = <<>>
    /\ clock \in 0..MaxClock
    /\ \E c \in AllCaptions, n \in FileNames \cup {<<>>} :
          out = [NoEvent EXCEPT !.event = "caption",
                                !.input = [kind |-> "caption", caption |-> c,
                                           file_name |-> n]]

\* Lines 285-294 of handle_document applied to the drawn caption.
parse_caption_call ==
    /\ out.event = "caption"
    /\ LET p == parse_caption(out.input.caption, out.input.file_name, clock)
       IN  out' = [out EXCEPT !.event = "parsed", !.title = p.title,
                              !.course_code = p.course_code,
                              !.department = p.department]
    /\ UNCHANGED <<rows, seq, blobs, clock, addLog>>

NextParse == parse_caption_call

SpecParse == InitParse /\ [][NextParse]_vars

----------------------------------------------------------------------------
(* The adapter on its own: every response shape, every failure. *)

InitAI ==
    /\ rows = <<>> /\ seq = 0 /\ blobs = <<>> /\ addLog = <<>> /\ clock = 0
    /\ \E op \in {"text", "image"}, dec \in BOOLEAN, rem \in BOOLEAN,
          rsp \in ResponseShapes :
          /\ op = "text" => dec
          /\ out = [NoEvent EXCEPT !.event = "ask",
                                   !.input = [kind |-> op, decode_ok |-> dec,
                                              remote_ok |-> rem, response |-> rsp]]

gemini_text_call ==
    /\ out.event = "ask" /\ out.input.kind = "text"
    /\ LET ai == gemini_text_query(out.input.remote_ok, out.input.response)
       IN  out' = [out EXCEPT !.event = "answered", !.text = ai.text,
                              !.calls = ai.calls, !.raised = ai.raised]
    /\ UNCHANGED <<rows, seq, blobs, clock, addLog>>

gemini_image_call ==
    /\ out.event = "ask" /\ out.input.kind = "image"
    /\ LET ai == gemini_image_query(out.input.decode_ok, out.input.remote_ok,
                                    out.input.response)
       IN  out' = [out EXCEPT !.event = "answered", !.text = ai.text,
                              !.calls = ai.calls, !.raised = ai.raised]
    /\ UNCHANGED <<rows, seq, blobs, clock, addLog>>

NextAI == gemini_text_call \/ gemini_image_call

SpecAI == InitAI /\ [][NextAI]_vars

----------------------------------------------------------------------------
(* Properties. *)

\* C1: a document from a sender outside the admin allowlist leaves the row set
\* and the upload directory as they were, whatever they hold, asks nothing of
\* the chat platform and sends exactly one reply, the permission-denied one.
C1_NonAdminUploadHasNoEffect ==
    [][(out'.event = "document" /\ out'.user \notin ADMIN_IDS)
         => /\ rows' = rows
            /\ seq' = seq
            /\ blobs' = blobs
            /\ out'.calls = <<>>
            /\ out'.wrote = NoneV
            /\ out'.fault = ""
            /\ Len(out'.replies) = 1
            /\ Head(out'.replies[1]) = PermissionDenied]_vars

\* A non-admin document handled while the store holds a row and a blob.
C1_Witness ==
    /\ out.event = "document"
    /\ out.user \notin ADMIN_IDS
    /\ rows # <<>>
    /\ DOMAIN blobs # {}

\* C2 as claimed: get(id) on the id an add returned gives back title, filename,
\* course_code, department and uploader as passed, and ids strictly increase.
C2_GetReturnsEveryFieldPassed ==
    /\ \A i \in 1..Len(addLog) :
          Tail(get_resource(rows, addLog[i].id))
            = <<addLog[i].title, addLog[i].filename, addLog[i].course_code,
                addLog[i].department, addLog[i].uploader>>
    /\ \A i, j \in 1..Len(addLog) : i < j => addLog[i].id < addLog[j].id

\* C2 as amended: get(id) on the id an add returned gives the id and the title,
\* filename, course_code and department passed to that add; the uploader passed
\* is kept in the row but is no part of what get returns; the ids returned by
\* sequential adds strictly increase.
C2_GetReturnsStoredSummary ==
    /\ \A i \in 1..Len(addLog) :
          /\ get_resource(rows, addLog[i].id)
               = <<addLog[i].id, addLog[i].title, addLog[i].filename,
                   addLog[i].course_code, addLog[i].department>>
          /\ \E k \in 1..Len(rows) :
                rows[k].id = addLog[i].id /\ rows[k].uploader = addLog[i].uploader
    /\ \A i, j \in 1..Len(addLog) : i < j => addLog[i].id < addLog[j].id

\* Two adds have returned, with different titles.
C2_Witness ==
    /\ Len(addLog) = 2
    /\ addLog[1].title # addLog[2].title
    /\ addLog[2].course_code # <<>>

\* Whether q occurs in s as a substring, ASCII case folded (the reading of
\* "substring" most favourable to LIKE).
Contains(s, q) ==
    \E i \in 0..(Len(s) - Len(q)) :
        \A k \in 1..Len(q) : Lower(s[i + k]) = Lower(q[k])

\* The events that carry the result of a search.
IsSearch(e) == e \in {"list", "search", "text_search", "store_search"}

\* The row whose summary a search returned.
RowOf(table, summary) ==
    table[CHOOSE i \in 1..Len(table) : table[i].id = summary[1]]

\* C3 as claimed: search(q, limit) returns at most limit rows, each holding q as
\* a substring of its title, course_code or department, also for a q with % or
\* _ in it, in descending order of uploaded_at.
C3_SearchReturnsSubstringMatches ==
    (IsSearch(out.event) /\ out.limit > 0) =>
        /\ Len(out.result) <= out.limit
        /\ \A k \in 1..Len(out.result) :
              \/ Contains(out.result[k][2], out.query)
              \/ Contains(out.result[k][4], out.query)
              \/ Contains(out.result[k][5], out.query)
        /\ \A i, j \in 1..Len(out.result) :
              i < j => ~TextLess(RowOf(rows, out.result[i]).uploaded_at,
                                 RowOf(rows, out.result[j]).uploaded_at)

\* C4 as claimed: search("", N) returns the N most recently inserted rows,
\* newest first, or all of them when there are fewer, also when two inserts
\* carry the same uploaded_at.
C4_EmptyQueryListsMostRecent ==
    (IsSearch(out.event) /\ out.limit > 0 /\ out.query = <<>>) =>
        out.result = [k \in 1..Min(out.limit, Len(rows)) |->
                        Summary(rows[Len(rows) + 1 - k])]

\* The pieces of a text between its separators, every separator cutting.
Segments(s, sep) == Split(s, sep, Len(s))

\* The i-th piece, trimmed, "" when there are fewer than i pieces.
SegmentOr(s, sep, i) ==
    IF i <= Len(Segments(s, sep)) THEN Strip(Segments(s, sep)[i]) ELSE <<>>

\* The title of a caption without '|': the caption, else the file name, else
\* the generated name.
PlainTitle(caption, file_name, t) ==
    IF caption # <<>> THEN caption
    ELSE IF file_name # NoneV /\ file_name # <<>> THEN file_name
    ELSE <<"resource_">> \o Str(TimeSeconds(t))

\* The caption of a parsed input as the handler sees it: (caption or "").strip()
GivenCaption ==
    IF out.input.caption = NoneV THEN <<>> ELSE Strip(out.input.caption)

\* C5 as claimed: with a '|' in the caption, title, course_code and department
\* are the first three pipe-delimited segments, trimmed, a missing one empty,
\* also when there are more than three segments; without a '|', the title is
\* the caption, else the file name, else a generated name, and course_code and
\* department are empty.
C5_CaptionIsFirstThreeSegments ==
    out.event = "parsed" =>
        IF \E i \in 1..Len(GivenCaption) : GivenCaption[i] = "|"
        THEN /\ out.title = SegmentOr(GivenCaption, "|", 1)
             /\ out.course_code = SegmentOr(GivenCaption, "|", 2)
             /\ out.department = SegmentOr(GivenCaption, "|", 3)
        ELSE /\ out.title = PlainTitle(GivenCaption, out.input.file_name, clock)
             /\ out.course_code = <<>>
             /\ out.department = <<>>

\* Positions of '|' in the given caption.
Pipes == {i \in 1..Len(GivenCaption) : GivenCaption[i] = "|"}

\* C5 as amended: with a '|' in the caption, title is the text before the first
\* '|' and course_code the text between the first '|' and the second (or the
\* end), both trimmed; department is everything after the second '|', trimmed,
\* later '|' included (so it is the third segment only when there are at most
\* three), and empty when there is no second '|'.  Without a '|' the claim
\* stands as it is.
C5_CaptionIsCutAtFirstTwoPipes ==
    out.event = "parsed" =>
        IF Pipes # {}
        THEN LET c == GivenCaption
                 p1 == CHOOSE i \in Pipes : \A j \in Pipes : i <= j
                 later == Pipes \ {p1}
                 p2 == IF later = {} THEN Len(c) + 1
                       ELSE CHOOSE i \in later : \A j \in later : i <= j
             IN  /\ out.title = Strip(SubSeq(c, 1, p1 - 1))
                 /\ out.course_code = Strip(SubSeq(c, p1 + 1, p2 - 1))
                 /\ out.department = Strip(SubSeq(c, p2 + 1, Len(c)))
        ELSE /\ out.title = PlainTitle(GivenCaption, out.input.file_name, clock)
             /\ out.course_code = <<>>
             /\ out.department = <<>>

\* A parsed caption of four segments.
C5_Witness ==
    /\ out.event = "parsed"
    /\ Cardinality(Pipes) = 3
    /\ out.department = <<"|">>

\* Whether the table holds a row with this id.
HasRow(table, id) == \E i \in 1..Len(table) : table[i].id = id

\* The filename column of the row with this id.
FilenameOf(table, id) ==
    table[CHOOSE i \in 1..Len(table) : table[i].id = id].filename

\* C6: a download action whose id has no row is answered "not found", and one
\* whose row names a blob that is not in the upload directory is answered
\* "file missing"; either way the handler returns without raising, sends no
\* document and leaves the stores as they were.
C6_DownloadOfMissingIsAnswered ==
    [][(out'.event = "get" /\ IntOf(out'.data) # -1)
         => LET rid == IntOf(out'.data)
                quiet == /\ out'.fault = ""
                         /\ out'.calls = <<>>
                         /\ rows' = rows /\ seq' = seq /\ blobs' = blobs
            IN  /\ ~HasRow(rows, rid)
                     => quiet /\ out'.replies = <<<<"Resource not found.">>>>
                /\ (HasRow(rows, rid) /\ FilenameOf(rows, rid) \notin DOMAIN blobs)
                     => quiet /\ out'.replies = <<<<"File missing on server.">>>>]_vars

\* A download of a stored resource whose blob was deleted out of band.
C6_Witness ==
    /\ out.event = "get"
    /\ HasRow(rows, IntOf(out.data))
    /\ FilenameOf(rows, IntOf(out.data)) \notin DOMAIN blobs
    /\ out.replies = <<<<"File missing on server.">>>>

\* The failure an adapter call was given, "" when none.
AdapterFailure ==
    IF out.input.kind = "image" /\ ~out.input.decode_ok THEN "decode"
    ELSE IF ~out.input.remote_ok THEN "remote"
    ELSE ""

\* C7 as claimed: when the remote call or the image decoding raises, both
\* adapter operations return, without raising, a string that begins with the
\* same prefix "Error querying <service>:", after exactly one remote call.
C7_FailureGivesErrorQueryingPrefix ==
    (out.event = "answered" /\ AdapterFailure # "") =>
        /\ ~out.raised
        /\ Head(out.text) = TextErrorPrefix
        /\ out.calls = <<"generate_content">>

\* C7 as amended: when the remote call or the image decoding raises, the
\* operation returns, without raising, a string that begins with its own fixed
\* prefix: "Error querying Gemini: " for gemini_text_query and "Error
\* processing image: " for gemini_image_query; the remote call is made once
\* when it is the call that raises, and not at all when the decoding raises.
C7_FailureGivesOwnErrorPrefix ==
    (out.event = "answered" /\ AdapterFailure # "") =>
        /\ ~out.raised
        /\ Len(out.text) = 2
        /\ Head(out.text) = (IF out.input.kind = "text" THEN TextErrorPrefix
                             ELSE ImageErrorPrefix)
        /\ out.calls = (IF AdapterFailure = "decode" THEN <<>>
                        ELSE <<"generate_content">>)

\* gemini_image_query has answered an image it could not decode.
C7_Witness ==
    /\ out.event = "answered"
    /\ out.input.kind = "image"
    /\ AdapterFailure = "decode"
    /\ Head(out.text) = ImageErrorPrefix

\* C8 as claimed: saving a blob never writes over a name that is already in
\* the upload directory, and no two rows have the same filename.
C8_SaveNeverOverwrites ==
    /\ out.event = "document" => ~out.existed
    /\ \A i, j \in 1..Len(rows) : i # j => rows[i].filename # rows[j].filename

\* C9: a row, once in the table, stays with the same id and the same fields;
\* the table changes only by one row appended, and only in the handling of a
\* document from an admin that ends with the "Uploaded" reply.
C9_RowsAreOnlyAppended ==
    [][/\ Len(rows) <= Len(rows')
       /\ \A i \in 1..Len(rows) : rows'[i] = rows[i]
       /\ rows' # rows =>
            /\ Len(rows') = Len(rows) + 1
            /\ rows'[Len(rows')].id \notin {rows[i].id : i \in 1..Len(rows)}
            /\ out'.event = "document"
            /\ out'.user \in ADMIN_IDS
            /\ out'.met = {}
            /\ Head(out'.replies[1]) = Uploaded]_vars

\* With two rows stored, a download has been served.
C9_Witness ==
    /\ Len(rows) = 2
    /\ out.event = "get"
    /\ out.calls = <<"send_document">>

\* C10 as claimed: an event whose handling met an external failure ends with a
\* message to the sender (for a photo, one after the "Processing" notice) and
\* with no exception leaving the handler.
C10_FailureEndsInMessage ==
    out.met # {} =>
        /\ out.fault = ""
        /\ Len(out.replies) >= (IF out.event = "photo" THEN 2 ELSE 1)

\* C11: a document from an admin whose size is above the limit is rejected
\* before any download: the only reply is the size-limit message, no file-info
\* or download request goes to the chat platform, no file is opened for
\* writing, and the directory and the table stay as they were.
C11_OversizedIsRejectedBeforeDownload ==
    [][(/\ out'.event = "document"
        /\ out'.user \in ADMIN_IDS
        /\ out'.file_size # NoSize
        /\ out'.file_size > 20 * 1024 * 1024)
         => /\ out'.replies = <<<<TooLarge>>>>
            /\ out'.calls = <<>>
            /\ out'.wrote = NoneV
            /\ out'.added = 0
            /\ out'.fault = ""
            /\ blobs' = blobs
            /\ rows' = rows
            /\ seq' = seq]_vars

\* An oversized document from an admin has been turned down.
C11_Witness ==
    /\ out.event = "document"
    /\ out.user \in ADMIN_IDS
    /\ out.file_size > 20 * 1024 * 1024
    /\ out.replies = <<<<TooLarge>>>>

\* The response an answered adapter call was given.
Given == out.input.response

\* Direct text is available: reading it does not raise and it is not empty.
HasDirectText(rsp) == ~rsp.text_raises /\ Len(rsp.text) > 0

\* The blocked indicator is set.
IsBlocked(rsp) == rsp.feedback \in {"SAFETY"}

\* The texts of the text-bearing parts of the first candidate, in order.
PartTexts(rsp) ==
    IF rsp.candidates = <<>> \/ ~rsp.candidates[1].content_ok THEN <<>>
    ELSE LET bearing == SelectSeq(rsp.candidates[1].parts, LAMBDA p : p.has_text)
         IN  [k \in 1..Len(bearing) |-> bearing[k].text]

\* Concatenation of texts, from the left.
RECURSIVE Concat(_)
Concat(texts) ==
    IF Len(texts) = 0 THEN <<>>
    ELSE Concat(SubSeq(texts, 1, Len(texts) - 1)) \o texts[Len(texts)]

\* The first candidate carries a stop reason.
HasStopReason(rsp) == rsp.candidates = <<>> \/ rsp.candidates[1].finish # "missing"

\* The strings the normalization can give for a response.
Normalized(rsp) ==
    {rsp.text, <<"Request blocked by Gemini: ", rsp.feedback>>, Unreadable,
     Concat(PartTexts(rsp))}
    \cup (IF rsp.candidates = <<>> THEN {}
          ELSE {<<"Generation stopped: ", rsp.candidates[1].finish>>})

RowsNameBlobs(table, dir) ==
    \A i \in 1..Len(table) : table[i].filename \in DOMAIN dir

\* A step of the bot itself: the handling of an event begins or ends.
BotStep == out' # out

\* C13 as claimed: the handling of an event removes no file and keeps every
\* row's filename naming a file of the directory; a row is added only with the
\* file it names already written; and when the insert fails after the file
\* was written, the file stays in the directory, no row names it, and the
\* sender is answered with the metadata error message.
C13_RowsNameBlobsAndFailedInsertOrphans ==
    [][BotStep =>
         /\ DOMAIN blobs \subseteq DOMAIN blobs'
         /\ RowsNameBlobs(rows, blobs) => RowsNameBlobs(rows', blobs')
         /\ rows' # rows =>
              /\ rows'[Len(rows')].filename = out'.wrote
              /\ out'.wrote \in DOMAIN blobs'
         /\ (out'.event = "document" /\ out'.met = {"insert"}) =>
              /\ out'.wrote \in DOMAIN blobs'
              /\ \A i \in 1..Len(rows') : rows'[i].filename # out'.wrote
              /\ rows' = rows
              /\ out'.fault = ""
              /\ Len(out'.replies) = 1
              /\ Head(out'.replies[1]) = MetadataError]_vars

====
